---- MODULE Spec2Model ----
(***************************************************************************)
(* Model of the market history plugin of graphene                          *)
(* (libraries/plugins/market_history/market_history_plugin.cpp): the       *)
(* bucket index, the per-block callback update_market_histories and the    *)
(* fill_order visitor operation_process_fill_order.                        *)
(***************************************************************************)
EXTENDS Integers, Sequences, FiniteSets, TLC

(***************************************************************************)
(* Bounds of the specifications.  SpecRetention explores every             *)
(* configuration over long block sequences of simple trades; SpecTrades    *)
(* explores blocks of several operations over every price; SpecWide runs   *)
(* the blocks of SpecRetention under one configuration of large values.    *)
(***************************************************************************)
MaxBucket == 2
MaxHist == 2
MaxAsset == 2
RMaxAmount == 1
RMaxOps == 1
RMaxTime == 3
RMaxBlocks == 3
TMaxAmount == 2
TMaxOps == 3
TMaxTime == 1
TMaxBlocks == 1

\* a day-long bucket and a history whose product exceeds 32 bits
WideBucket == 86400
WideHistory == 100000

\* uint32_t _maximum_history_per_bucket_size = 1000, also the option's default
DefaultHistory == 1000

VARIABLES
    initialized,      \* plugin_initialize has run (the callback is connected)
    tracked_buckets,  \* _tracked_buckets
    max_history,      \* _maximum_history_per_bucket_size
    bucket_idx,       \* the bucket_index of the database: a set of bucket_object
    crashed,          \* the process was ended by the integer division trap
    div_by_zero,      \* line 102 has divided by a zero bucket size
    trap,             \* whether the build's integer division by zero traps
    head_time,        \* timestamp of the last applied block
    nblocks,          \* number of applied blocks
    last,             \* the last applied block
    log,              \* create/modify/remove events of the last applied block
    routed,           \* key -> every trade price ever routed to the key
    life,             \* key -> the trade prices routed since the record's creation
    dedup,            \* the run that is never shown a fill with pays id > receives id
    solo              \* d -> the run whose tracked set lacks d

vars == <<initialized, tracked_buckets, max_history, bucket_idx, crashed,
          div_by_zero, trap, head_time, nblocks, last, log, routed, life,
          dedup, solo>>

----------------------------------------------------------------------------
(* Operations, prices and keys *)

OtherOps == {"witness_create", "witness_withdraw_pay"}

Asset(id, amount) == [asset_id |-> id, amount |-> amount]

FillOrder(pays, receives) ==
    [type |-> "fill_order", pays |-> pays, receives |-> receives]

\* price operator/(asset, asset): base = pays, quote = receives
Price(base, quote) == [base |-> base, quote |-> quote]

\* price comparison by cross-multiplication (both prices of one asset pair)
PriceLess(a, b) ==
    a.base.amount * b.quote.amount < b.base.amount * a.quote.amount

\* bucket_object::high() and low()
High(b) == Price(Asset(b.key.base, b.high_base), Asset(b.key.quote, b.high_quote))

Low(b) == Price(Asset(b.key.base, b.low_base), Asset(b.key.quote, b.low_quote))

BucketKey(base, quote, seconds, open) ==
    [base |-> base, quote |-> quote, seconds |-> seconds, open |-> open]

\* the by_key ordering: (base, quote, seconds, open) lexicographically
KeyLess(a, b) ==
    \/ a.base < b.base
    \/ a.base = b.base /\ a.quote < b.quote
    \/ a.base = b.base /\ a.quote = b.quote /\ a.seconds < b.seconds
    \/ a.base = b.base /\ a.quote = b.quote /\ a.seconds = b.seconds
       /\ a.open < b.open

Find(idx, key) == {b \in idx : b.key = key}

----------------------------------------------------------------------------
(* The fill_order visitor *)

\* uint32_t (lines 54-55) as two 16-bit digits <<high, low>>: TLC's integers
\* end below 2^32
Half == 65536

Digits(n) == <<n \div Half, n % Half>>

\* x * y for x, y < 2^16, as <<high, low>>
MulDigit(x, y) ==
    LET p1 == x * (y \div 256)
        p0 == x * (y % 256)
        lo == (p1 % 256) * 256 + p0
    IN  <<(p1 \div 256) + (lo \div Half), lo % Half>>

\* the four 16-bit digits of the mathematical product a * b, highest first
Product(a, b) ==
    LET x   == Digits(a)
        y   == Digits(b)
        p00 == MulDigit(x[2], y[2])
        p01 == MulDigit(x[2], y[1])
        p10 == MulDigit(x[1], y[2])
        p11 == MulDigit(x[1], y[1])
        s1  == p00[1] + p01[2] + p10[2]
        s2  == (s1 \div Half) + p01[1] + p10[1] + p11[2]
        s3  == (s2 \div Half) + p11[1]
    IN  <<s3, s2 % Half, s1 % Half, p00[2]>>

\* uint32_t * uint32_t: the low 32 bits of the product, widened to int64_t
Mul32(a, b) == <<0, 0, Product(a, b)[3], Product(a, b)[4]>>

\* line 83: seconds after the epoch, bucket * max_history in uint32_t
Cutoff(bucket, mh) == Mul32(bucket, mh)

\* time_point_sec < time_point (line 154), the cutoff in digits
Before(open, cutoff) ==
    \/ cutoff[1] > 0
    \/ cutoff[2] > 0
    \/ open \div Half < cutoff[3]
    \/ open \div Half = cutoff[3] /\ open % Half < cutoff[4]

\* the filter with the comparison reversed
SkipDuplicate_Reversed(key) == key.base < key.quote

\* lines 93-97: the duplicate filter
SkipDuplicate(key) == key.base > key.quote

\* line 102: (_now.sec_since_epoch() / key.seconds) * key.seconds; with
\* key.seconds = 0 and no trap the quotient is arbitrary and the product is 0
OpenTime(now, seconds) == IF seconds = 0 THEN 0 ELSE (now \div seconds) * seconds

\* lines 108-120
Create(key, trade_price) ==
    [key          |-> key,
     quote_volume |-> 0 + trade_price.quote.amount,
     base_volume  |-> 0 + trade_price.base.amount,
     open_base    |-> trade_price.base.amount,
     open_quote   |-> trade_price.quote.amount,
     close_base   |-> trade_price.base.amount,
     close_quote  |-> trade_price.quote.amount,
     high_base    |-> trade_price.base.amount,
     high_quote   |-> trade_price.quote.amount,
     low_base     |-> trade_price.base.amount,
     low_quote    |-> trade_price.quote.amount]

\* the volumes fed from the wrong sides of the price
AddVolume_Swapped(b, trade_price) ==
    [b EXCEPT !.base_volume  = @ + trade_price.quote.amount,
              !.quote_volume = @ + trade_price.base.amount]

\* lines 127-128
AddVolume(b, trade_price) ==
    [b EXCEPT !.base_volume  = @ + trade_price.base.amount,
              !.quote_volume = @ + trade_price.quote.amount]

\* lines 129-130
SetClose(b, trade_price) ==
    [b EXCEPT !.close_base  = trade_price.base.amount,
              !.close_quote = trade_price.quote.amount]

\* the high also replaced by a trade at the same price
RaiseHigh_OnTie(b, trade_price) ==
    IF ~PriceLess(trade_price, High(b))
    THEN [b EXCEPT !.high_base = b.close_base, !.high_quote = b.close_quote]
    ELSE b

\* lines 131-135
RaiseHigh(b, trade_price) ==
    IF PriceLess(High(b), trade_price)
    THEN [b EXCEPT !.high_base = b.close_base, !.high_quote = b.close_quote]
    ELSE b

\* the low replaced by a higher trade price instead of a lower one
LowerLow_Reversed(b, trade_price) ==
    IF PriceLess(Low(b), trade_price)
    THEN [b EXCEPT !.low_base = b.close_base, !.low_quote = b.close_quote]
    ELSE b

\* lines 136-140
LowerLow(b, trade_price) ==
    IF PriceLess(trade_price, Low(b))
    THEN [b EXCEPT !.low_base = b.close_base, !.low_quote = b.close_quote]
    ELSE b

\* lines 126-141
Modify(b, trade_price) ==
    LowerLow(RaiseHigh(SetClose(AddVolume(b, trade_price), trade_price),
                       trade_price), trade_price)

\* line 148: by_key_idx.lower_bound(key)
LowerBound(idx, key) ==
    LET ge == {b \in idx : ~KeyLess(b.key, key)}
    IN  {b \in ge : \A c \in ge : ~KeyLess(c.key, b.key)}

\* the loop condition without its tests of the group
Stale_OpenOnly(b, key, bucket, cutoff) == Before(b.key.open, cutoff)

\* lines 150-154: the loop condition
Stale(b, key, bucket, cutoff) ==
    /\ b.key.base = key.base
    /\ b.key.quote = key.quote
    /\ b.key.seconds = bucket
    /\ Before(b.key.open, cutoff)

\* lines 147-160: from the first record of the group on, remove while stale
RECURSIVE EvictLoop(_, _, _, _)
EvictLoop(idx, key, bucket, cutoff) ==
    LET itr == LowerBound(idx, key)
    IN  IF itr # {} /\ \A b \in itr : Stale(b, key, bucket, cutoff)
        THEN EvictLoop(idx \ itr, key, bucket, cutoff)
        ELSE idx

\* the keys of a set of records, ascending in the by_key order
RECURSIVE Ascending(_)
Ascending(keys) ==
    IF keys = {} THEN <<>>
    ELSE LET k == CHOOSE k \in keys : \A j \in keys : ~KeyLess(j, k)
         IN  <<k>> \o Ascending(keys \ {k})

Event(ev, key) == [ev |-> ev, key |-> key]

RemoveEvents(before, after) ==
    LET ks == Ascending({b.key : b \in before \ after})
    IN  [i \in 1..Len(ks) |-> Event("remove", ks[i])]

Append1(f, key, x) ==
    IF key \in DOMAIN f THEN [f EXCEPT ![key] = Append(@, x)]
    ELSE [k \in DOMAIN f \cup {key} |-> IF k = key THEN <<x>> ELSE f[k]]

Reset1(f, key, x) ==
    [k \in DOMAIN f \cup {key} |-> IF k = key THEN <<x>> ELSE f[k]]

\* lines 83-161: the body of the loop over the tracked buckets, for one bucket
ProcessBucket(db, o, bucket, now, mh) ==
    LET base  == o.pays.asset_id
        quote == o.receives.asset_id
    IN  IF db.crashed \/ SkipDuplicate([base |-> base, quote |-> quote])
        THEN db
        ELSE IF bucket = 0 /\ db.trap
        THEN [db EXCEPT !.crashed = TRUE, !.div_by_zero = TRUE]
        ELSE
        LET trade_price == Price(o.pays, o.receives)
            key     == BucketKey(base, quote, bucket, OpenTime(now, bucket))
            cutoff  == Cutoff(bucket, mh)
            itr     == Find(db.idx, key)
            written == IF itr = {}
                       THEN db.idx \cup {Create(key, trade_price)}
                       ELSE (db.idx \ itr) \cup {Modify(b, trade_price) : b \in itr}
            first   == BucketKey(base, quote, bucket, 0)
            pruned  == IF mh # 0 THEN EvictLoop(written, first, bucket, cutoff)
                       ELSE written
        IN  [db EXCEPT
               !.idx = pruned,
               !.div_by_zero = @ \/ bucket = 0,
               !.log = @ \o <<Event(IF itr = {} THEN "create" ELSE "modify", key)>>
                         \o RemoveEvents(written, pruned),
               !.routed = Append1(@, key, trade_price),
               !.life = IF itr = {} THEN Reset1(@, key, trade_price)
                        ELSE Append1(@, key, trade_price)]

\* line 81: for( auto bucket : buckets ), a flat_set iterated in ascending order
RECURSIVE ForBuckets(_, _, _, _, _)
ForBuckets(db, o, buckets, now, mh) ==
    IF buckets = {} THEN db
    ELSE LET bucket == CHOOSE x \in buckets : \A y \in buckets : x <= y
         IN  ForBuckets(ProcessBucket(db, o, bucket, now, mh), o,
                        buckets \ {bucket}, now, mh)

\* lines 69-73: op.op.visit( operation_process_fill_order )
\* every operation handled as a trade
Visit_AnyOp(db, op, buckets, now, mh) ==
    ForBuckets(db, IF op.type = "fill_order" THEN op
                   ELSE FillOrder(Asset(1, 1), Asset(2, 1)),
               buckets, now, mh)

Visit(db, op, buckets, now, mh) ==
    IF op.type = "fill_order" THEN ForBuckets(db, op, buckets, now, mh) ELSE db

\* lines 176-177
RECURSIVE ForOps(_, _, _, _, _)
ForOps(db, hist, buckets, now, mh) ==
    IF hist = <<>> \/ db.crashed THEN db
    ELSE ForOps(Visit(db, Head(hist), buckets, now, mh), Tail(hist),
                buckets, now, mh)

\* the early return on a zero history left out
NoUpdate_TrackedOnly(buckets, mh) == Cardinality(buckets) = 0

\* lines 171-172
NoUpdate(buckets, mh) == mh = 0 \/ Cardinality(buckets) = 0

\* lines 169-178
UpdateMarketHistories(db, b, buckets, mh) ==
    IF NoUpdate(buckets, mh) THEN db
    ELSE ForOps(db, b.applied_operations, buckets, b.timestamp, mh)

----------------------------------------------------------------------------
(* State machine *)

NewDb(t) == [idx |-> {}, crashed |-> FALSE, div_by_zero |-> FALSE, trap |-> t,
             log |-> <<>>, routed |-> <<>>, life |-> <<>>]

\* after construction: no tracked bucket, the default history, nothing connected
Init ==
    /\ initialized = FALSE
    /\ tracked_buckets = {}
    /\ max_history = DefaultHistory
    /\ bucket_idx = {}
    /\ crashed = FALSE
    /\ div_by_zero = FALSE
    /\ trap \in BOOLEAN
    /\ head_time = 0
    /\ nblocks = 0
    /\ last = [timestamp |-> 0, applied_operations |-> <<>>]
    /\ log = <<>>
    /\ routed = <<>>
    /\ life = <<>>
    /\ dedup = NewDb(trap)
    /\ solo = <<>>

\* lines 215-227; options = the bucket-size list (as a set) and history-per-size
PluginInitialize(options) ==
    /\ ~initialized
    /\ initialized' = TRUE
    /\ tracked_buckets' = tracked_buckets \cup options.bucket_size
    /\ max_history' = IF options.history_per_size = {} THEN max_history
                      ELSE CHOOSE h \in options.history_per_size : TRUE
    /\ solo' = [d \in tracked_buckets' |-> NewDb(trap)]
    /\ UNCHANGED <<bucket_idx, crashed, div_by_zero, trap, head_time, nblocks,
                   last, log, routed, life, dedup>>

NotDiscarded(op) ==
    ~(op.type = "fill_order" /\ op.pays.asset_id > op.receives.asset_id)

\* line 217: the applied_block callback
AppliedBlock(b) ==
    /\ initialized
    /\ ~crashed
    /\ b.timestamp >= head_time
    /\ LET db  == [idx |-> bucket_idx, crashed |-> crashed,
                   div_by_zero |-> div_by_zero, trap |-> trap,
                   log |-> <<>>, routed |-> routed, life |-> life]
           out == UpdateMarketHistories(db, b, tracked_buckets, max_history)
           bb  == [b EXCEPT !.applied_operations = SelectSeq(@, NotDiscarded)]
       IN  /\ bucket_idx' = out.idx
           /\ crashed' = out.crashed
           /\ div_by_zero' = out.div_by_zero
           /\ log' = out.log
           /\ routed' = out.routed
           /\ life' = out.life
           /\ dedup' = UpdateMarketHistories([dedup EXCEPT !.log = <<>>], bb,
                                              tracked_buckets, max_history)
           /\ solo' = [d \in DOMAIN solo |->
                         UpdateMarketHistories([solo[d] EXCEPT !.log = <<>>], b,
                                               tracked_buckets \ {d}, max_history)]
    /\ head_time' = b.timestamp
    /\ nblocks' = nblocks + 1
    /\ last' = b
    /\ UNCHANGED <<initialized, tracked_buckets, max_history, trap>>

----------------------------------------------------------------------------
(* Inputs *)

Options == [bucket_size : SUBSET (0..MaxBucket),
            history_per_size : {{}} \cup {{h} : h \in 0..MaxHist}]

Ops(maxAmount) ==
    {FillOrder(Asset(pa, pm), Asset(ra, rm)) :
        pa \in 1..MaxAsset, pm \in 1..maxAmount,
        ra \in 1..MaxAsset, rm \in 1..maxAmount}
    \cup {[type |-> t] : t \in OtherOps}

RECURSIVE Lists(_, _)
Lists(S, n) ==
    IF n = 0 THEN {<<>>}
    ELSE LET shorter == Lists(S, n - 1)
         IN  shorter \cup {Append(l, x) : l \in {s \in shorter : Len(s) = n - 1}, x \in S}

Blocks(maxAmount, maxOps, maxTime) ==
    [timestamp : 0..maxTime, applied_operations : Lists(Ops(maxAmount), maxOps)]

RBlocks == Blocks(RMaxAmount, RMaxOps, RMaxTime)

TBlocks == Blocks(TMaxAmount, TMaxOps, TMaxTime)

NextR ==
    \/ \E options \in Options : PluginInitialize(options)
    \/ /\ nblocks < RMaxBlocks
       /\ \E b \in RBlocks : AppliedBlock(b)

SpecRetention == Init /\ [][NextR]_vars

TOptions == [bucket_size : SUBSET (1..MaxBucket),
             history_per_size : {{h} : h \in 1..MaxHist}]

NextT ==
    \/ \E options \in TOptions : PluginInitialize(options)
    \/ /\ nblocks < TMaxBlocks
       /\ \E b \in TBlocks : AppliedBlock(b)

\* no zero bucket size is tracked here, so the build's division is immaterial
InitT == Init /\ trap = TRUE

SpecTrades == InitT /\ [][NextT]_vars

WOptions == [bucket_size : {{WideBucket}}, history_per_size : {{WideHistory}}]

NextW ==
    \/ \E options \in WOptions : PluginInitialize(options)
    \/ /\ nblocks < RMaxBlocks
       /\ \E b \in RBlocks : AppliedBlock(b)

SpecWide == Init /\ [][NextW]_vars

----------------------------------------------------------------------------
(* Properties *)

Range(f) == {f[i] : i \in DOMAIN f}

\* an applied operation the duplicate filter lets through
AcceptedTrade(op) ==
    op.type = "fill_order" /\ op.pays.asset_id <= op.receives.asset_id

LastAccepted == {op \in Range(last.applied_operations) : AcceptedTrade(op)}

\* the accepted trades of the last block between two different assets
LastMatched == {op \in LastAccepted : op.pays.asset_id < op.receives.asset_id}

\* the last block was processed to its end with eviction enabled
Updated == initialized /\ nblocks > 0 /\ ~crashed /\ max_history # 0

Group(op, d) ==
    {b \in bucket_idx : /\ b.key.base = op.pays.asset_id
                        /\ b.key.quote = op.receives.asset_id
                        /\ b.key.seconds = d}

Positive(S) == {d \in S : d > 0}

\* C1: after an accepted trade is processed at block time now for a tracked
\* duration d, the group (base, quote, d) holds no record whose open time is
\* before now - d * max_history (stated for the trades between two different
\* assets and the durations d > 0).
C1_StaleEvicted ==
    Updated =>
        \A op \in LastMatched : \A d \in Positive(tracked_buckets) :
            \A b \in Group(op, d) :
                b.key.open >= last.timestamp - d * max_history

\* C2: measured right after an update of the group, a (base, quote, d) group
\* never holds more than max_history + 1 records (stated for the trades
\* between two different assets and the durations d > 0).
C2_BoundedStorage ==
    Updated =>
        \A op \in LastMatched : \A d \in Positive(tracked_buckets) :
            Cardinality(Group(op, d)) <= max_history + 1

\* C3: an update at block time now never removes a record whose open time is
\* at or after now - d * max_history (stated for the records of two different
\* assets).
C3_NoOverEviction ==
    \A i \in DOMAIN log :
        (log[i].ev = "remove" /\ log[i].key.base < log[i].key.quote) =>
            log[i].key.open < last.timestamp - log[i].key.seconds * max_history

Same(p, q) == p.base.amount = q.base.amount /\ p.quote.amount = q.quote.amount

Cheaper(p, q) == p.base.amount * q.quote.amount < q.base.amount * p.quote.amount

\* the first trade of h that no trade of h exceeds / undercuts
FirstMax(h) ==
    h[CHOOSE i \in DOMAIN h :
        /\ \A j \in DOMAIN h : ~Cheaper(h[i], h[j])
        /\ \A j \in 1..(i - 1) : Cheaper(h[j], h[i])]

FirstMin(h) ==
    h[CHOOSE i \in DOMAIN h :
        /\ \A j \in DOMAIN h : ~Cheaper(h[j], h[i])
        /\ \A j \in 1..(i - 1) : Cheaper(h[i], h[j])]

OpenPrice(b) == Price(Asset(b.key.base, b.open_base), Asset(b.key.quote, b.open_quote))

ClosePrice(b) ==
    Price(Asset(b.key.base, b.close_base), Asset(b.key.quote, b.close_quote))

\* C4: every record has open = the first, close = the last, high = the
\* maximum and low = the minimum of the trade prices routed into its key,
\* a tie keeping the earlier extremum.
C4_OHLC ==
    \A b \in bucket_idx :
        /\ b.key \in DOMAIN routed
        /\ LET h == routed[b.key]
           IN  /\ Same(OpenPrice(b), h[1])
               /\ Same(ClosePrice(b), h[Len(h)])
               /\ Same(High(b), FirstMax(h))
               /\ Same(Low(b), FirstMin(h))

\* a record fed by three trades whose open, high and low prices all differ
C4_Witness ==
    \E b \in bucket_idx :
        /\ Len(routed[b.key]) >= 3
        /\ Cheaper(OpenPrice(b), High(b))
        /\ Cheaper(Low(b), OpenPrice(b))
        /\ ~Same(ClosePrice(b), OpenPrice(b))

RECURSIVE SumBase(_)
SumBase(h) == IF h = <<>> THEN 0 ELSE Head(h).base.amount + SumBase(Tail(h))

RECURSIVE SumQuote(_)
SumQuote(h) == IF h = <<>> THEN 0 ELSE Head(h).quote.amount + SumQuote(Tail(h))

\* C5: every record's base_volume is the sum of the pays amounts and its
\* quote_volume the sum of the receives amounts of the accepted trades routed
\* into its key since its creation.
C5_Volumes ==
    \A b \in bucket_idx :
        /\ b.key \in DOMAIN life
        /\ b.base_volume = SumBase(life[b.key])
        /\ b.quote_volume = SumQuote(life[b.key])

\* a record fed by several trades whose two volumes differ
C5_Witness ==
    \E b \in bucket_idx :
        /\ Len(life[b.key]) >= 2
        /\ b.base_volume # b.quote_volume

Discarded(op) == op.type = "fill_order" /\ op.pays.asset_id > op.receives.asset_id

Symmetric(a, b) ==
    /\ a.type = "fill_order" /\ b.type = "fill_order"
    /\ a.pays = b.receives /\ a.receives = b.pays

C7_ZeroHistoryRecords ==
    (initialized /\ nblocks > 0 /\ ~crashed /\ max_history = 0) =>
        \A op \in LastMatched : \A d \in Positive(tracked_buckets) :
            \E b \in Group(op, d) :
                b.key.open = (last.timestamp \div d) * d

\* C8: with no tracked duration or a zero max_history the callback changes
\* nothing and raises no error.
C8_NoOpFastPath ==
    [][(nblocks' = nblocks + 1 /\ (tracked_buckets = {} \/ max_history = 0)) =>
          /\ bucket_idx' = bucket_idx
          /\ log' = <<>>
          /\ ~crashed' /\ ~div_by_zero']_vars

\* a block with an accepted trade was applied under a zero max_history while
\* a zero bucket size was tracked
C8_Witness ==
    /\ nblocks > 0
    /\ max_history = 0
    /\ 0 \in tracked_buckets /\ Positive(tracked_buckets) # {}
    /\ LastAccepted # {}
    /\ bucket_idx = {}

Canonical(idx) == {b \in idx : b.key.base < b.key.quote}

\* C9: for every tracked d, the records of the durations other than d are
\* those of the run whose tracked set lacks d (stated for the records of two
\* different assets).
C9_Independence ==
    \A d \in DOMAIN solo :
        Canonical({b \in bucket_idx : b.key.seconds # d}) = Canonical(solo[d].idx)

\* C10: the tracked set never contains 0 and the block time is never divided
\* by a zero bucket size.
C10_ZeroRejected == 0 \notin tracked_buckets /\ ~div_by_zero

\* C11: every record in the store has key.base strictly below key.quote
\* (stated for the records of the durations d > 0).
C11_CanonicalOrientation ==
    \A b \in bucket_idx : b.key.seconds > 0 => b.key.base < b.key.quote

\* C12: in every record the high price is at or above the open, close and low
\* prices and the low price at or below the open, close and high prices,
\* compared by cross-multiplication.
C12_OHLCOrder ==
    \A b \in bucket_idx :
        /\ ~Cheaper(High(b), OpenPrice(b))
        /\ ~Cheaper(High(b), ClosePrice(b))
        /\ ~Cheaper(High(b), Low(b))
        /\ ~Cheaper(OpenPrice(b), Low(b))
        /\ ~Cheaper(ClosePrice(b), Low(b))

\* a record whose close price lies strictly between its low and its high
C12_Witness ==
    \E b \in bucket_idx :
        /\ Cheaper(ClosePrice(b), High(b))
        /\ Cheaper(Low(b), ClosePrice(b))

\* the last accepted trade of its asset pair in the last block
LastOfPair(i) ==
    LET ops == last.applied_operations
    IN  /\ AcceptedTrade(ops[i])
        /\ ops[i].pays.asset_id < ops[i].receives.asset_id
        /\ \A j \in DOMAIN ops :
              (j > i /\ AcceptedTrade(ops[j])) =>
                  \/ ops[j].pays.asset_id # ops[i].pays.asset_id
                  \/ ops[j].receives.asset_id # ops[i].receives.asset_id

\* C14: with max_history >= 1, right after an accepted trade is processed at
\* block time now for a tracked duration d, the store holds the record of key
\* (base, quote, d, floor(now / d) * d) with close = the trade price (stated
\* for the trades between two different assets and the durations d > 0).
C14_WrittenSurvives ==
    Updated =>
        \A i \in DOMAIN last.applied_operations : LastOfPair(i) =>
            \A d \in Positive(tracked_buckets) :
                \E b \in Group(last.applied_operations[i], d) :
                    /\ b.key.open = (last.timestamp \div d) * d
                    /\ Same(ClosePrice(b),
                            Price(last.applied_operations[i].pays,
                                  last.applied_operations[i].receives))

\* C15: the create step runs at most once for a key: the trades routed to a
\* key since the last creation of its record are all the trades ever routed
\* to it (stated for the keys of two different assets and of durations d > 0).
C15_NeverRecreated ==
    \A k \in DOMAIN routed :
        (k.seconds > 0 /\ k.base < k.quote) => life[k] = routed[k]

SameGroup(j, k) == j.base = k.base /\ j.quote = k.quote /\ j.seconds = k.seconds

\* every removal of the last block follows, within its own trade/duration
\* step, the write of a key of its group
RemovedInScope ==
    \A i \in DOMAIN log :
        log[i].ev = "remove" =>
            \E j \in 1..(i - 1) :
                /\ log[j].ev # "remove"
                /\ \A k \in (j + 1)..i : log[k].ev = "remove"
                /\ SameGroup(log[i].key, log[j].key)

\* C16: every record removed by an eviction pass has the base, the quote and
\* the bucket_seconds of the key written by the trade/duration step the pass
\* belongs to, and a block leaves every record unchanged whose group none of
\* its steps wrote.
C16_EvictionScope ==
    [][/\ RemovedInScope'
       /\ \A b \in bucket_idx :
             (\A i \in DOMAIN log' :
                 log'[i].ev = "remove" \/ ~SameGroup(log'[i].key, b.key))
             => b \in bucket_idx']_vars

\* an eviction pass removed a record while a record of another pair or another
\* duration, whose open time is before that pass's cutoff, stays in the store
C16_Witness ==
    \E i \in DOMAIN log :
        /\ log[i].ev = "remove"
        /\ \E b \in bucket_idx :
              /\ ~SameGroup(b.key, log[i].key)
              /\ KeyLess(log[i].key, b.key)
              /\ Before(b.key.open, Cutoff(log[i].key.seconds, max_history))

\* C17: every record's open_time is a multiple of its bucket_seconds, its
\* bucket_seconds is a tracked duration, and a record created by the block of
\* timestamp now has open_time <= now < open_time + bucket_seconds (stated
\* for the records of two different assets).
C17_SlotAligned ==
    /\ \A b \in bucket_idx :
          b.key.base < b.key.quote =>
              /\ b.key.seconds \in tracked_buckets
              /\ \E k \in 0..b.key.open : b.key.open = k * b.key.seconds
    /\ \A i \in DOMAIN log :
          (log[i].ev = "create" /\ log[i].key.base < log[i].key.quote) =>
              /\ log[i].key.open <= last.timestamp
              /\ last.timestamp < log[i].key.open + log[i].key.seconds

\* the last block holds operations, none of them a trade
OnlyOtherOps(b) ==
    /\ b.applied_operations # <<>>
    /\ \A op \in Range(b.applied_operations) : op.type \in OtherOps

\* C18: processing an applied operation that is not a fill_order_operation
\* leaves the store unchanged: no record is created, modified or removed.
C18_OtherOpsIgnored ==
    [][(nblocks' = nblocks + 1 /\ OnlyOtherOps(last')) =>
          /\ bucket_idx' = bucket_idx
          /\ log' = <<>>
          /\ ~crashed' /\ div_by_zero' = div_by_zero]_vars

\* a block of other operations was applied to a non-empty store while buckets
\* were tracked with a non-zero history
C18_Witness ==
    /\ nblocks > 1
    /\ OnlyOtherOps(last)
    /\ max_history # 0 /\ tracked_buckets # {}
    /\ Canonical(bucket_idx) # {}

\* C19: the retention window d * max_history used for the eviction cutoff is
\* the exact product of the tracked bucket size d and max_history; it does
\* not wrap modulo 2^32.
C19_ExactWindow ==
    (Updated /\ LastMatched # {}) =>
        \A d \in tracked_buckets :
            Cutoff(d, max_history) = Product(d, max_history)

====
